---- MODULE Spec2Model ----
(***************************************************************************)
(* The tool-execution pipeline of the browser MCP server: the call-tool    *)
(* request handler and its modal-state gate (src/src/server.ts) and the    *)
(* snapshot tools with the stale-reference repair                          *)
(* (src/src/tools/snapshot.ts), and the ServerList of src/src/server.ts.   *)
(* Context, Tab and the page snapshot are                                  *)
(* imported by these files from ./context; they are modelled from the      *)
(* specification's description of them.                                    *)
(***************************************************************************)
EXTENDS Integers, Sequences, FiniteSets, TLC

(* ------------------------------ bounds -------------------------------- *)
\* captures performed on the page over one behaviour (generations 1..MaxGen)
MaxGen == 3
\* servers the factory of a ServerList produces over one behaviour
MaxServers == 3
\* invocations of one server's close() that are followed
MaxCloses == 2
(* --------------------------- character data --------------------------- *)
\* A reference is a string, kept as a sequence of one-character strings.
Digits == <<"0", "1", "2", "3", "4", "5", "6", "7", "8", "9">>

IsDigit(ch) == \E d \in 1..10 : Digits[d] = ch

DigitVal(ch) == (CHOOSE d \in 1..10 : Digits[d] = ch) - 1

\* `${n}` for a non-negative integer: decimal, no leading zeros
RECURSIVE NumStr(_)
NumStr(n) == IF n < 10 THEN <<Digits[n + 1]>>
             ELSE NumStr(n \div 10) \o <<Digits[(n % 10) + 1]>>

\* parseInt of a string of decimal digits (leading zeros are dropped)
RECURSIVE ParseInt(_)
ParseInt(ds) == IF ds = <<>> THEN 0
                ELSE 10 * ParseInt(SubSeq(ds, 1, Len(ds) - 1)) + DigitVal(ds[Len(ds)])

\* the longest run of digits of str that starts at position p
RECURSIVE DigitRun(_, _)
DigitRun(str, p) == IF p <= Len(str) /\ IsDigit(str[p])
                    THEN <<str[p]>> \o DigitRun(str, p + 1)
                    ELSE <<>>

\* String.prototype.startsWith
StartsWith(str, pre) == /\ Len(pre) <= Len(str)
                        /\ SubSeq(str, 1, Len(pre)) = pre

\* s<generation>e<localId>, the reference a capture mints
MkRef(g, i) == <<"s">> \o NumStr(g) \o <<"e">> \o NumStr(i)

NoRef == <<>>

(* ------------------------------ the page ------------------------------ *)
Elems == {"a", "b"}

\* the interactive nodes of the live page, in document order
PageShapes == {<<"a", "b">>, <<"b">>}

ModalTypes == {"dialog", "fileChooser"}

None == "none"

(* --------------------- the stale-reference repair --------------------- *)
\* ref.match(/s(\d+)e/): the positions where the pattern matches
StaleMatchAt(ref) == {p \in 1..Len(ref) :
                        /\ ref[p] = "s"
                        /\ DigitRun(ref, p + 1) # <<>>
                        /\ p + 1 + Len(DigitRun(ref, p + 1)) <= Len(ref)
                        /\ ref[p + 1 + Len(DigitRun(ref, p + 1))] = "e"}

\* parseInt(ref.match(/s(\d+)e/)?.[1] || '0'): the leftmost match's group
RefGeneration(ref) ==
    IF StaleMatchAt(ref) = {} THEN ParseInt(<<"0">>)
    ELSE LET p == CHOOSE q \in StaleMatchAt(ref) : \A r \in StaleMatchAt(ref) : q <= r
         IN  ParseInt(DigitRun(ref, p + 1))

\* `s${n}e`
GenPrefix(n) == <<"s">> \o NumStr(n) \o <<"e">>

\* The serialized snapshot carries one [ref=...] per node, in tree order; the
\* text is kept as the sequence of those references.
\* text.match(new RegExp(`ref=(${prefix}\\d+)`))?.[1]: the first reference of
\* the text that is the prefix followed by digits, cut after the digits.
TextMatch(text, prefix) ==
    LET hits == {k \in 1..Len(text) :
                    /\ StartsWith(text[k], prefix)
                    /\ DigitRun(text[k], Len(prefix) + 1) # <<>>}
    IN  IF hits = {} THEN NoRef
        ELSE LET k == CHOOSE h \in hits : \A j \in hits : h <= j
             IN  prefix \o DigitRun(text[k], Len(prefix) + 1)

\* A repair that does not ask where in the reference the generation stands.
StaleRefResultUnanchored(text, ref) ==
    LET newRef == TextMatch(text, GenPrefix(RefGeneration(ref) + 1))
    IN  IF newRef # NoRef THEN newRef ELSE ref

\* handleStaleRef, after the capture: text is the fresh snapshot's text
StaleRefResult(text, ref) ==
    LET expectedPrefix == GenPrefix(RefGeneration(ref) + 1)
    IN  IF StartsWith(ref, GenPrefix(RefGeneration(ref)))
        THEN LET newRef == TextMatch(text, expectedPrefix)
             IN  IF newRef # NoRef THEN newRef ELSE ref
        ELSE ref

(* ------------------------- snapshots of a page ------------------------ *)
\* The text of the capture of generation g over the nodes it found.
SnapshotText(g, nodes) == [k \in 1..Len(nodes) |-> MkRef(g, k)]

\* Resolve(reference) against the capture of generation g: the node that
\* carries exactly this reference, or None (stale or unknown reference).
ResolveIn(g, nodes, ref) ==
    IF \E k \in 1..Len(nodes) : MkRef(g, k) = ref
    THEN nodes[CHOOSE k \in 1..Len(nodes) : MkRef(g, k) = ref]
    ELSE None

(* ------------------------------ the tools ----------------------------- *)
\* A tool declaration: schema name, the modal state it clears (None when it
\* declares none), the shape of its handler, and its post-condition flags.
ToolDecl(n, c, k, cap, net) ==
    [name |-> n, clears |-> c, kind |-> k, captureSnapshot |-> cap, waitForNetwork |-> net]

snapshot     == ToolDecl("browser_snapshot", None, "snapshot", TRUE, FALSE)
click        == ToolDecl("browser_click", None, "click", TRUE, TRUE)
drag         == ToolDecl("browser_drag", None, "drag", TRUE, TRUE)
hover        == ToolDecl("browser_hover", None, "element", TRUE, TRUE)
type         == ToolDecl("browser_type", None, "element", TRUE, TRUE)
selectOption == ToolDecl("browser_select_option", None, "element", TRUE, TRUE)
selectRadio  == ToolDecl("browser_select_radio", None, "element", TRUE, TRUE)
screenshot   == ToolDecl("browser_take_screenshot", None, "screenshot", TRUE, FALSE)

\* Tools that declare clearsModalState, one per modal type.
handleDialog == ToolDecl("browser_handle_dialog", "dialog", "modal", FALSE, FALSE)
fileUpload   == ToolDecl("browser_file_upload", "fileChooser", "modal", FALSE, FALSE)

\* The default export of tools/snapshot.
snapshotTools == <<snapshot, click, drag, hover, type, selectOption, selectRadio, screenshot>>

\* The tool list the server is created with.
tools == snapshotTools \o <<handleDialog, fileUpload>>

NoTool == ToolDecl(None, None, None, FALSE, FALSE)

\* A lookup that falls back to the first tool for a name it does not know.
FindToolOrFirst(name) ==
    IF \E k \in 1..Len(tools) : tools[k].name = name
    THEN tools[CHOOSE k \in 1..Len(tools) : tools[k].name = name]
    ELSE tools[1]

\* tools.find(tool => tool.schema.name === request.params.name)
FindTool(name) ==
    IF \E k \in 1..Len(tools) : tools[k].name = name
    THEN tools[CHOOSE k \in 1..Len(tools) :
                  /\ tools[k].name = name
                  /\ \A j \in 1..(k - 1) : tools[j].name # name]
    ELSE NoTool

\* A gate that lets a modal-clearing tool through whatever is active.
GateRejectsOrdinaryOnly(tool, active) == tool.clears = None /\ active # {}

\* The condition of the gate's if statement: the call is rejected.
GateRejects(tool, active) ==
    \/ (tool.clears # None /\ tool.clears \notin active)
    \/ (tool.clears = None /\ active # {})

(* ---------------------------- responses ------------------------------- *)
NoResp == [isError |-> FALSE, kind |-> None, tool |-> None, modals |-> {}]

\* createErrorResponse(text): kind is the message, tool the name the message
\* quotes, modals the modal states the message lists.
createErrorResponse(kind, name, listed) ==
    [isError |-> TRUE, kind |-> kind, tool |-> name, modals |-> listed]

OkResponse == [isError |-> FALSE, kind |-> "ok", tool |-> None, modals |-> {}]

(* ------------------------------- state -------------------------------- *)
VARIABLES
    modalStates,  \* Context: the types of the active modal states
    tabOpen,      \* Context: there is a current Tab
    tabGen,       \* Tab: generation of its current snapshot, 0 when it has none
    captures,     \* the page: captures[g] is the node list of generation g
    pageElems,    \* the page: its interactive nodes now, in document order
    calls,        \* the call-tool requests being handled, by request id
    probe,        \* handleStaleRef applied on its own: arguments and result
    servers,      \* ServerList._servers
    creating,     \* ServerList.create: servers made by the factory, not yet pushed
    made,         \* servers the factory has produced so far
    closes,       \* per server, the invocations of its close()
    closing       \* per server of createServerWithTools, its overridden close()

\* the session's pipeline
pipeline == <<modalStates, tabOpen, tabGen, captures, pageElems, calls>>

\* the server list
list == <<servers, creating, made, closes>>

vars == <<pipeline, probe, list, closing>>

\* request ids that may be outstanding at once
CallIds == {1, 2}

\* the generation of the page's latest capture
PageGen == Len(captures)

\* The element a locator for ref is bound to on the page: references resolve
\* against the latest capture of the page.
Locate(ref) == IF PageGen = 0 THEN None
               ELSE ResolveIn(PageGen, captures[PageGen], ref)

Idle == [pc |-> "idle", tool |-> None, valid |-> TRUE, orig |-> NoRef,
         ref |-> NoRef, ref2 |-> NoRef, via |-> FALSE, handled |-> FALSE,
         target |-> None, target2 |-> None, resp |-> NoResp,
         element |-> FALSE, slowly |-> FALSE, submit |-> FALSE,
         code |-> FALSE, steps |-> <<>>, log |-> <<>>]

(* ------------------------------- inputs ------------------------------- *)
ToolNames == {tools[k].name : k \in 1..Len(tools)} \cup {"browser_teleport"}

RefInputs == {MkRef(g, i) : g \in 1..MaxGen, i \in 1..2}
                 \cup {<<"s", "0", "1", "e", "1">>}

NoArgs == [ok |-> TRUE, element |-> FALSE, ref |-> NoRef, ref2 |-> NoRef,
           slowly |-> FALSE, submit |-> FALSE]

BadArgs == [NoArgs EXCEPT !.ok = FALSE]

ElementArgs(r) == [NoArgs EXCEPT !.element = TRUE, !.ref = r]

\* ok: the arguments have the fields and types of the tool's zod object
ArgSets(name) ==
    CASE name \in {"browser_click", "browser_hover"} ->
             {ElementArgs(r) : r \in RefInputs} \cup {BadArgs}
      [] name = "browser_type" ->
             {[ElementArgs(MkRef(g, 1)) EXCEPT !.slowly = sl, !.submit = su] :
                  g \in 1..2, sl \in BOOLEAN, su \in BOOLEAN} \cup {BadArgs}
      [] name \in {"browser_select_option", "browser_select_radio"} ->
             {ElementArgs(MkRef(g, 1)) : g \in 1..2} \cup {BadArgs}
      [] name = "browser_drag" ->
             {[ElementArgs(MkRef(g, 1)) EXCEPT !.ref2 = MkRef(h, 2)] :
                  g \in 1..2, h \in 1..2} \cup {BadArgs}
      [] name = "browser_take_screenshot" ->
             {[NoArgs EXCEPT !.ok = o, !.element = e, !.ref = r] :
                  o \in BOOLEAN, e \in BOOLEAN, r \in {NoRef, MkRef(1, 1), MkRef(2, 2)}}
      [] name \in {"browser_handle_dialog", "browser_file_upload"} -> {NoArgs, BadArgs}
      [] OTHER -> {NoArgs}

\* every request of the input sets
AllInputs == UNION {{<<n, a>> : a \in ArgSets(n)} : n \in ToolNames}

\* the requests a client sends without awaiting the previous response
OverlapInputs ==
    {<<"browser_snapshot", NoArgs>>, <<"browser_teleport", NoArgs>>,
     <<"browser_hover", ElementArgs(MkRef(1, 1))>>, <<"browser_hover", BadArgs>>,
     <<"browser_click", ElementArgs(MkRef(1, 2))>>,
     <<"browser_handle_dialog", NoArgs>>, <<"browser_handle_dialog", BadArgs>>,
     <<"browser_file_upload", NoArgs>>}

\* A screenshot schema without its refinement.
SchemaAcceptsNoRefine(tool, args) ==
    CASE tool.kind = "snapshot" -> TRUE
      [] OTHER -> args.ok

\* schema.parse(params) succeeds.  browser_snapshot's handler parses nothing.
SchemaAccepts(tool, args) ==
    CASE tool.kind = "snapshot" -> TRUE
      [] tool.kind = "screenshot" -> args.ok /\ (args.element <=> (args.ref # NoRef))
      [] OTHER -> args.ok

\* handleStaleRef not called on its own
NoProbe == [pc |-> "none", ref |-> NoRef, text |-> <<>>, out |-> NoRef]

\* A session after createServerWithTools: no modal state, no Tab, no call.
PipelineInit ==
    /\ modalStates = {}
    /\ tabOpen = FALSE
    /\ tabGen = 0
    /\ captures = <<>>
    /\ pageElems = <<"a", "b">>
    /\ calls = [c \in CallIds |-> Idle]

\* new ServerList(factory): _servers = []
ListInit ==
    /\ servers = <<>>
    /\ creating = {}
    /\ made = 0
    /\ closes = [s \in 1..MaxServers |-> 0]

\* A server createServerWithTools has returned: close() not called, the
\* underlying server and the Context open.
Open == [pc |-> "open", oldClosed |-> FALSE, ctxStarted |-> FALSE, ctxClosed |-> FALSE]

\* The servers createServerWithTools has returned.
CloseInit == closing = [s \in 1..MaxServers |-> Open]

Init == PipelineInit /\ probe = NoProbe /\ ListInit /\ CloseInit

(* --------------------------- the dispatcher --------------------------- *)
Done(call, resp) == [call EXCEPT !.pc = "done", !.resp = resp]

\* An exception escapes the request handler to the transport.
Uncaught(call, error) == [call EXCEPT !.pc = "thrown"]

\* The catch of handleToolExecution: what context.run throws becomes the
\* response createErrorResponse(String(error)).
Caught(call, error) == Done(call, createErrorResponse(error, None, {}))

\* browser_type's steps with the Enter press pushed first.
TypeStepsEnterFirst(slowly, submit) ==
    (IF submit THEN <<"press">> ELSE <<>>)
        \o <<IF slowly THEN "pressSequentially" ELSE "fill">>

\* browser_type's handler: the steps it pushes, in the order it pushes them.
TypeSteps(slowly, submit) ==
    <<IF slowly THEN "pressSequentially" ELSE "fill">>
        \o (IF submit THEN <<"press">> ELSE <<>>)

\* The deferred action a handler returns, as the driver operations it runs
\* in order; browser_snapshot returns none.
ActionSteps(tool, call) ==
    CASE tool.name = "browser_click" -> <<"click">>
      [] tool.name = "browser_drag" -> <<"dragTo">>
      [] tool.name = "browser_hover" -> <<"hover">>
      [] tool.name = "browser_type" -> TypeSteps(call.slowly, call.submit)
      [] tool.name = "browser_select_option" -> <<"selectOption">>
      [] tool.name = "browser_select_radio" -> <<"check">>
      [] tool.name = "browser_take_screenshot" -> <<"screenshot">>
      [] tool.kind = "modal" -> <<"handle">>
      [] OTHER -> <<>>

\* The handler returns its result: the trace is complete and the action is
\* handed to context.run, not yet run.
HandlerReturns(call, tool) ==
    [call EXCEPT !.pc = "act", !.code = TRUE, !.steps = ActionSteps(tool, call)]

\* Handlers that look for the Tab and its snapshot before they parse.
HandlerStartTabFirst(call, tool, args) ==
    LET h == [call EXCEPT !.handled = TRUE]
    IN  CASE tool.kind = "snapshot" -> [h EXCEPT !.pc = "ensure"]
          [] tool.kind = "modal" ->
                 IF ~SchemaAccepts(tool, args) THEN Caught(h, "invalid")
                 ELSE HandlerReturns(h, tool)
          [] OTHER ->
                 IF ~tabOpen \/ (tool.kind # "click" /\ tabGen = 0)
                 THEN Caught(h, "precondition")
                 ELSE IF ~SchemaAccepts(tool, args) THEN Caught(h, "invalid")
                 ELSE IF tool.kind = "click" THEN [h EXCEPT !.pc = "stale"]
                 ELSE IF tool.kind = "screenshot" /\ args.ref = NoRef
                 THEN HandlerReturns(h, tool)
                 ELSE [h EXCEPT !.pc = "plan"]

\* The handler up to its first await, for an admitted call: the call's record
\* after the handler's synchronous prefix (a throw is caught by
\* handleToolExecution and becomes the response).
HandlerStart(call, tool, args) ==
    LET h == [call EXCEPT !.handled = TRUE]
        err(kind) == Caught(h, kind)
    IN  CASE tool.kind = "snapshot" -> [h EXCEPT !.pc = "ensure"]
          [] tool.kind = "modal" ->
                 IF ~SchemaAccepts(tool, args) THEN err("invalid")
                 ELSE HandlerReturns(h, tool)
          [] tool.kind = "click" ->
                 IF ~SchemaAccepts(tool, args) THEN err("invalid")
                 ELSE IF ~tabOpen THEN err("precondition")
                 ELSE [h EXCEPT !.pc = "stale"]
          [] tool.kind \in {"element", "drag"} ->
                 IF ~SchemaAccepts(tool, args) THEN err("invalid")
                 ELSE IF ~tabOpen \/ tabGen = 0 THEN err("precondition")
                 ELSE [h EXCEPT !.pc = "plan"]
          [] tool.kind = "screenshot" ->
                 IF ~SchemaAccepts(tool, args) THEN err("invalid")
                 ELSE IF ~tabOpen \/ tabGen = 0 THEN err("precondition")
                 ELSE IF args.ref # NoRef THEN [h EXCEPT !.pc = "plan"]
                 ELSE HandlerReturns(h, tool)

\* A gate whose rejection is built but not returned: the handler still runs.
CallToolFallThrough(call, name, args) ==
    LET tool == FindTool(name)
        got  == [call EXCEPT !.tool = name, !.valid = SchemaAccepts(tool, args),
                             !.orig = args.ref,
                             !.ref = args.ref, !.ref2 = args.ref2,
                             !.element = args.element,
                             !.slowly = args.slowly, !.submit = args.submit]
    IN  IF tool = NoTool
        THEN Done(got, createErrorResponse("notfound", name, {}))
        ELSE HandlerStart(got, tool, args)

\* The call-tool request handler up to its first await: registry lookup, the
\* gate of handleToolExecution, and the start of context.run.
CallTool(call, name, args) ==
    LET tool == FindTool(name)
        got  == [call EXCEPT !.tool = name, !.valid = SchemaAccepts(tool, args),
                             !.orig = args.ref,
                             !.ref = args.ref, !.ref2 = args.ref2,
                             !.element = args.element,
                             !.slowly = args.slowly, !.submit = args.submit]
    IN  IF tool = NoTool
        THEN Done(got, createErrorResponse("notfound", name, {}))
        ELSE IF GateRejects(tool, modalStates)
        THEN Done(got, createErrorResponse("modal", name, modalStates))
        ELSE HandlerStart(got, tool, args)

\* A call-tool request arrives and its handler runs to its first await.
ReceiveFrom(c, inputs) ==
    /\ calls[c].pc = "idle"
    /\ \E in \in inputs :
           calls' = [calls EXCEPT ![c] = CallTool(calls[c], in[1], in[2])]
    /\ UNCHANGED <<modalStates, tabOpen, tabGen, captures, pageElems>>
    /\ UNCHANGED <<probe, list, closing>>

\* browser_snapshot's handler: await context.ensureTab().  It returns no
\* action, so context.run goes on to the post-conditions.
EnsureTab(c) ==
    /\ calls[c].pc = "ensure"
    /\ tabOpen' = TRUE
    /\ calls' = [calls EXCEPT ![c].pc = "snap", ![c].code = TRUE]
    /\ UNCHANGED <<modalStates, tabGen, captures, pageElems>>
    /\ UNCHANGED <<probe, list, closing>>

\* browser_click's handler from handleStaleRef to refLocator: a new Tab object
\* around the page captures a snapshot (the page's generation advances, the
\* session's Tab keeps the snapshot it had), the reference is repaired from
\* the fresh text, and the session Tab's snapshot is asked for the locator.
StaleRef(c) ==
    /\ calls[c].pc = "stale"
    /\ PageGen < MaxGen
    /\ captures' = Append(captures, pageElems)
    /\ LET ref == StaleRefResult(SnapshotText(PageGen + 1, pageElems), calls[c].orig)
           got == [calls[c] EXCEPT !.ref = ref, !.via = TRUE]
       IN  calls' = [calls EXCEPT ![c] =
                        IF tabGen = 0
                        THEN Caught(got, "precondition")
                        ELSE [got EXCEPT !.pc = "plan"]]
    /\ UNCHANGED <<modalStates, tabOpen, tabGen, pageElems>>
    /\ UNCHANGED <<probe, list, closing>>

\* A handler that runs the driver operation itself while it plans.
PlanCallActsInline(call, tool) ==
    LET t1 == Locate(call.ref)
        t2 == IF tool.kind = "drag" THEN Locate(call.ref2) ELSE None
    IN  IF t1 = None \/ (tool.kind = "drag" /\ t2 = None)
        THEN Caught(call, "staleref")
        ELSE [call EXCEPT !.pc = "act", !.target = t1, !.target2 = t2,
                          !.code = TRUE, !.log = ActionSteps(tool, call)]

\* The rest of a handler that carries references: generateLocator binds each
\* locator on the page (a reference that does not resolve throws), the trace
\* is built around the locators and the result is returned.
PlanCall(call, tool) ==
    LET t1 == Locate(call.ref)
        t2 == IF tool.kind = "drag" THEN Locate(call.ref2) ELSE None
    IN  IF t1 = None \/ (tool.kind = "drag" /\ t2 = None)
        THEN Caught(call, "staleref")
        ELSE HandlerReturns([call EXCEPT !.target = t1, !.target2 = t2], tool)

Plan(c) ==
    /\ calls[c].pc = "plan"
    /\ calls' = [calls EXCEPT ![c] = PlanCall(calls[c], FindTool(calls[c].tool))]
    /\ UNCHANGED <<modalStates, tabOpen, tabGen, captures, pageElems>>
    /\ UNCHANGED <<probe, list, closing>>

\* context.run after the deferred action has succeeded: the post-conditions
\* still to apply.
AfterAction(call, tool) ==
    IF tool.waitForNetwork THEN [call EXCEPT !.pc = "net"]
    ELSE IF tool.captureSnapshot THEN [call EXCEPT !.pc = "snap"]
    ELSE Done(call, OkResponse)

\* A successful modal-clearing tool empties the whole active set.
ClearedAll(tool, active) == IF tool.clears # None THEN {} ELSE active

\* The active modal set after a successful run of the tool.
ClearedBy(tool, active) ==
    IF tool.clears # None THEN active \ {tool.clears} ELSE active

\* context.run executes the deferred action: the driver performs its next
\* operation or throws.  The operations of one action run in order, each
\* after the one before it has succeeded; a throw ends the action.  A
\* modal-clearing tool whose action succeeds removes its type from the set.
Act(c) ==
    /\ calls[c].pc = "act"
    /\ calls[c].steps # <<>>
    /\ LET tool == FindTool(calls[c].tool)
           ran  == [calls[c] EXCEPT !.log = Append(@, Head(calls[c].steps)),
                                    !.steps = Tail(@)]
       IN  \E ok \in BOOLEAN :
             IF ok /\ ran.steps # <<>>
             THEN /\ calls' = [calls EXCEPT ![c] = ran]
                  /\ UNCHANGED modalStates
             ELSE IF ok
             THEN /\ calls' = [calls EXCEPT ![c] = AfterAction(ran, tool)]
                  /\ modalStates' = ClearedBy(tool, modalStates)
             ELSE /\ calls' = [calls EXCEPT ![c] = Caught(calls[c], "action")]
                  /\ UNCHANGED modalStates
    /\ UNCHANGED <<tabOpen, tabGen, captures, pageElems>>
    /\ UNCHANGED <<probe, list, closing>>

\* context.run: the wait for network quiescence ends (settled or timed out).
WaitForNetwork(c) ==
    /\ calls[c].pc = "net"
    /\ calls' = [calls EXCEPT ![c] =
                    IF FindTool(calls[c].tool).captureSnapshot
                    THEN [calls[c] EXCEPT !.pc = "snap"]
                    ELSE Done(calls[c], OkResponse)]
    /\ UNCHANGED <<modalStates, tabOpen, tabGen, captures, pageElems>>
    /\ UNCHANGED <<probe, list, closing>>

\* context.run: the session's Tab captures a snapshot, which becomes its
\* current one, and the response is assembled.
Recapture(c) ==
    /\ calls[c].pc = "snap"
    /\ PageGen < MaxGen
    /\ captures' = Append(captures, pageElems)
    /\ tabGen' = PageGen + 1
    /\ calls' = [calls EXCEPT ![c] = Done(calls[c], OkResponse)]
    /\ UNCHANGED <<modalStates, tabOpen, pageElems>>
    /\ UNCHANGED <<probe, list, closing>>

\* The response is sent; the request id is free again.
Reply(c) ==
    /\ calls[c].pc = "done"
    /\ calls' = [calls EXCEPT ![c] = Idle]
    /\ UNCHANGED <<modalStates, tabOpen, tabGen, captures, pageElems>>
    /\ UNCHANGED <<probe, list, closing>>

(* --------------------------- the environment -------------------------- *)
\* The page changes its interactive nodes.
PageMutate ==
    /\ tabOpen
    /\ \E shape \in PageShapes \ {pageElems} : pageElems' = shape
    /\ UNCHANGED <<modalStates, tabOpen, tabGen, captures, calls>>
    /\ UNCHANGED <<probe, list, closing>>

\* The driver reports a blocking condition on the page.
RaiseModal ==
    /\ tabOpen
    /\ \E t \in ModalTypes \ modalStates : modalStates' = modalStates \cup {t}
    /\ UNCHANGED <<tabOpen, tabGen, captures, pageElems, calls>>
    /\ UNCHANGED <<probe, list, closing>>

\* Requests arrive whenever the client sends them: the server's request
\* handler is started for each, whatever the earlier ones are doing.
Receive(c) == ReceiveFrom(c, OverlapInputs)

\* A client that awaits each response before it sends the next request.
ReceiveSerial == ReceiveFrom(1, AllInputs)

Next ==
    \/ \E c \in CallIds : Receive(c)
    \/ \E c \in CallIds : EnsureTab(c)
    \/ \E c \in CallIds : StaleRef(c)
    \/ \E c \in CallIds : Plan(c)
    \/ \E c \in CallIds : Act(c)
    \/ \E c \in CallIds : WaitForNetwork(c)
    \/ \E c \in CallIds : Recapture(c)
    \/ \E c \in CallIds : Reply(c)
    \/ PageMutate
    \/ RaiseModal

Spec == Init /\ [][Next]_vars

NextSerial ==
    \/ ReceiveSerial
    \/ EnsureTab(1)
    \/ StaleRef(1)
    \/ Plan(1)
    \/ Act(1)
    \/ WaitForNetwork(1)
    \/ Recapture(1)
    \/ Reply(1)
    \/ PageMutate
    \/ RaiseModal

SpecSerial == Init /\ [][NextSerial]_vars

(* ------------------- handleStaleRef over its inputs -------------------- *)
\* References a client may send: minted ones of generations 0..2 and 9,
\* a leading zero, a leading foreign character, a frame reference, one
\* without generation, one without local id, two generations in a row,
\* and the empty string.
ProbeRefs ==
    {MkRef(g, i) : g \in 0..2, i \in 1..2}
        \cup {MkRef(9, 1),
              <<"s", "0", "1", "e", "1">>,
              <<"x", "s", "1", "e", "1">>,
              <<"f", "1", "s", "1", "e", "1">>,
              <<"e", "1">>,
              <<"s", "1", "e">>,
              <<"s", "1", "e", "s", "5", "e", "1">>,
              NoRef}

\* Snapshot texts the throwaway Tab may capture: pages of generations 1..3,
\* a generation of two digits, local ids of two digits, an empty page, a
\* page whose first node sits in a frame, and a text that quotes references
\* of several generations.
ProbeTexts ==
    {SnapshotText(g, shape) : g \in 1..3, shape \in PageShapes}
        \cup {<<>>,
              <<MkRef(10, 1), MkRef(10, 2)>>,
              <<MkRef(2, 12), MkRef(2, 3)>>,
              <<<<"f", "1">> \o MkRef(2, 1), MkRef(2, 2)>>,
              <<<<"f", "1">> \o MkRef(2, 1)>>,
              <<MkRef(1, 1), MkRef(3, 2), MkRef(2, 2), MkRef(2, 1)>>}

\* handleStaleRef is about to be called with ref, and its capture will read
\* text.
InitStale ==
    /\ PipelineInit
    /\ ListInit
    /\ CloseInit
    /\ \E r \in ProbeRefs : \E t \in ProbeTexts :
           probe = [pc |-> "called", ref |-> r, text |-> t, out |-> NoRef]

\* handleStaleRef(page, ref) returns.
handleStaleRef ==
    /\ probe.pc = "called"
    /\ probe' = [probe EXCEPT !.pc = "returned",
                              !.out = StaleRefResult(probe.text, probe.ref)]
    /\ UNCHANGED <<pipeline, list, closing>>

SpecStale == InitStale /\ [][handleStaleRef]_vars

(* ----------------------------- ServerList ----------------------------- *)
\* Array.prototype.indexOf, counted from 1; 0 when the item is not there
IndexOf(items, item) ==
    IF \E k \in 1..Len(items) : items[k] = item
    THEN CHOOSE k \in 1..Len(items) :
             items[k] = item /\ \A j \in 1..(k - 1) : items[j] # item
    ELSE 0

\* items.splice(k, 1)
Splice(items, k) == SubSeq(items, 1, k - 1) \o SubSeq(items, k + 1, Len(items))

\* create(), up to its await: the factory makes a server.
CreateServer ==
    /\ made < MaxServers
    /\ made' = made + 1
    /\ creating' = creating \cup {made + 1}
    /\ UNCHANGED <<servers, closes, pipeline, probe, closing>>

\* create(), after its await: the server is pushed and returned.
PushServer(s) ==
    /\ s \in creating
    /\ creating' = creating \ {s}
    /\ servers' = Append(servers, s)
    /\ UNCHANGED <<made, closes, pipeline, probe, closing>>

\* close(server), for a server create() has returned: it is spliced out of
\* the list when it is there, and its close() is invoked in either case.
CloseServer(s) ==
    /\ s \in 1..made /\ s \notin creating
    /\ closes[s] < MaxCloses
    /\ servers' = IF IndexOf(servers, s) # 0
                  THEN Splice(servers, IndexOf(servers, s))
                  ELSE servers
    /\ closes' = [closes EXCEPT ![s] = @ + 1]
    /\ UNCHANGED <<creating, made, pipeline, probe, closing>>

\* closeAll(): close() is invoked on every server of the list; the list
\* keeps them.
CloseAll ==
    /\ \A k \in 1..Len(servers) : closes[servers[k]] < MaxCloses
    /\ closes' = [s \in 1..MaxServers |->
                     IF IndexOf(servers, s) # 0 THEN closes[s] + 1 ELSE closes[s]]
    /\ UNCHANGED <<servers, creating, made, pipeline, probe, closing>>

NextServers ==
    \/ CreateServer
    \/ \E s \in 1..MaxServers : PushServer(s)
    \/ \E s \in 1..MaxServers : CloseServer(s)
    \/ CloseAll

SpecServers == Init /\ [][NextServers]_vars

(* ------------------- the close() of a created server ------------------- *)
\* server.close() is called: the override calls oldClose() and awaits it.
CallClose(s) ==
    /\ closing[s].pc = "open"
    /\ closing' = [closing EXCEPT ![s].pc = "oldClose"]
    /\ UNCHANGED <<pipeline, probe, list>>

\* await oldClose() settles.  Fulfilled: the underlying server is closed and
\* the override goes on to call context.close().  Rejected: the rejection
\* leaves the override, whose remaining statement is not run.
OldCloseSettles(s) ==
    /\ closing[s].pc = "oldClose"
    /\ \E ok \in BOOLEAN :
           closing' = [closing EXCEPT ![s] =
                          IF ok
                          THEN [@ EXCEPT !.pc = "contextClose",
                                         !.oldClosed = TRUE, !.ctxStarted = TRUE]
                          ELSE [@ EXCEPT !.pc = "thrown"]]
    /\ UNCHANGED <<pipeline, probe, list>>

\* await context.close() completes and close() returns.
ContextCloses(s) ==
    /\ closing[s].pc = "contextClose"
    /\ closing' = [closing EXCEPT ![s].pc = "returned", ![s].ctxClosed = TRUE]
    /\ UNCHANGED <<pipeline, probe, list>>

NextClose ==
    \/ \E s \in 1..MaxServers : CallClose(s)
    \/ \E s \in 1..MaxServers : OldCloseSettles(s)
    \/ \E s \in 1..MaxServers : ContextCloses(s)

\* A pending await is resumed once its promise settles, and the promises of
\* the underlying close and of context.close() settle; nothing makes a
\* client call close().
SpecClose ==
    /\ Init /\ [][NextClose]_vars
    /\ \A s \in 1..MaxServers :
           WF_vars(OldCloseSettles(s)) /\ WF_vars(ContextCloses(s))

(* ============================== claims ================================ *)
RegisteredNames == {tools[k].name : k \in 1..Len(tools)}

\* the step in which request c arrives and its handler runs to its first await
Started(c) == calls[c].pc = "idle" /\ calls'[c].pc # "idle"

\* the tool the request of c names
ToolOf(call) == FindTool(call.tool)

\* the gate as the specification words it
Admissible(tool, active) ==
    IF tool.clears # None THEN tool.clears \in active ELSE active = {}

\* a call past the gate and not yet answered
InFlight(call) == call.pc \notin {"idle", "done"}

\* ref is s<g>e<i> for some local index i
RefOfGen(ref, g) == \E i \in 0..9 : ref = MkRef(g, i)

\* ref is a well-formed reference of a generation other than g
RefOfOtherGen(ref, g) == \E h \in 0..(MaxGen + 1) : h # g /\ RefOfGen(ref, h)

\* the element the capture that minted ref bound it to, None if none did
MintedFor(ref) ==
    IF \E g \in 1..PageGen : \E i \in 1..Len(captures[g]) : MkRef(g, i) = ref
    THEN LET g == CHOOSE h \in 1..PageGen : \E i \in 1..Len(captures[h]) : MkRef(h, i) = ref
         IN  ResolveIn(g, captures[g], ref)
    ELSE None

\* C1: whatever modal states are active and whatever the tool declares, the
\* gate lets a call through exactly when the tool's declared modal type is
\* active, or, for a tool that declares none, when no modal state is active.
C1_GateAdmitsIff ==
    [][\A c \in CallIds :
          (Started(c) /\ calls'[c].tool \in RegisteredNames)
              => (calls'[c].handled <=> Admissible(ToolOf(calls'[c]), modalStates))]_vars

\* C1 witness: with both modal types active, a modal-clearing tool has been
\* admitted while an ordinary tool has been rejected.
C1_Witness ==
    /\ modalStates = ModalTypes
    /\ \E c \in CallIds : \E d \in CallIds :
          /\ calls[c].tool = "browser_handle_dialog" /\ calls[c].handled
          /\ calls[d].tool = "browser_hover" /\ calls[d].resp.kind = "modal"

\* C2: a call the gate rejects never reaches its handler, is answered with an
\* error response that names the tool and lists every active modal state,
\* and leaves the modal set and the snapshot state as they were.
C2_RejectionFrame ==
    [][\A c \in CallIds :
          (/\ Started(c)
           /\ calls'[c].tool \in RegisteredNames
           /\ ~Admissible(ToolOf(calls'[c]), modalStates))
              => /\ calls'[c].pc = "done"
                 /\ ~calls'[c].handled /\ ~calls'[c].via /\ calls'[c].target = None
                 /\ calls'[c].resp.isError
                 /\ calls'[c].resp.tool = calls'[c].tool
                 /\ calls'[c].resp.modals = modalStates
                 /\ UNCHANGED <<modalStates, tabOpen, tabGen, captures>>]_vars

\* C2 witness: scenario 2, an ordinary tool rejected while "dialog" is active.
C2_Witness ==
    \E c \in CallIds :
        /\ calls[c].pc = "done" /\ calls[c].tool = "browser_hover"
        /\ calls[c].resp.kind = "modal" /\ calls[c].resp.modals = {"dialog"}
        /\ modalStates = {"dialog"}

\* C3: a call that names no registered tool is answered with an error
\* response quoting the name; the gate and the handlers are not reached and
\* the modal set and the snapshot state are unchanged.
C3_UnknownTool ==
    [][\A c \in CallIds :
          (Started(c) /\ calls'[c].tool \notin RegisteredNames)
              => /\ calls'[c].pc = "done"
                 /\ calls'[c].resp = createErrorResponse("notfound", calls'[c].tool, {})
                 /\ calls'[c].resp.isError
                 /\ ~calls'[c].handled /\ ~calls'[c].via
                 /\ UNCHANGED <<modalStates, tabOpen, tabGen, captures>>]_vars

\* C3 witness: scenario 6, asked while a modal state is active.
C3_Witness ==
    \E c \in CallIds :
        /\ calls[c].pc = "done" /\ calls[c].tool = "browser_teleport"
        /\ calls[c].resp.kind = "notfound" /\ modalStates # {}

\* C4: no exception of an admitted call leaves the request handler: a failure
\* in planning or in the deferred action ends the call with an error response.
C4_FailuresAnswered ==
    \A c \in CallIds :
        /\ calls[c].pc \in {"idle", "ensure", "stale", "plan", "act", "net", "snap", "done"}
        /\ (calls[c].pc = "done" /\ calls[c].resp.kind # "ok") => calls[c].resp.isError

\* C4 witness: one call answered after its action threw, and another request
\* being handled.
C4_Witness ==
    \E c \in CallIds : \E d \in CallIds :
        /\ calls[c].pc = "done" /\ calls[c].resp.kind = "action" /\ calls[c].resp.isError
        /\ InFlight(calls[d])

\* C5: a request's gate check never happens while another request of the
\* session is between its gate check and its response.
C5_OneCallAtATime ==
    [][\A c \in CallIds :
          (Started(c) /\ calls'[c].tool \in RegisteredNames)
              => \A d \in CallIds \ {c} : ~InFlight(calls[d])]_vars

\* C6 as claimed: arguments that violate the schema are answered with the
\* invalid-arguments error whatever the active modal set.
C6_ValidationBeforeGate ==
    [][\A c \in CallIds :
          (Started(c) /\ calls'[c].tool \in RegisteredNames /\ ~calls'[c].valid)
              => calls'[c].resp.kind = "invalid"]_vars

\* C6 amended: arguments that violate the schema are answered with the gate's
\* rejection when the gate rejects the call, and otherwise with the
\* invalid-arguments error, thrown before the Tab, a snapshot or the driver
\* is touched.
C6_ValidationAfterGate ==
    [][\A c \in CallIds :
          (Started(c) /\ calls'[c].tool \in RegisteredNames /\ ~calls'[c].valid)
              => /\ calls'[c].pc = "done"
                 /\ calls'[c].resp.isError
                 /\ calls'[c].resp.kind =
                        IF Admissible(ToolOf(calls'[c]), modalStates)
                        THEN "invalid" ELSE "modal"
                 /\ ~calls'[c].via /\ calls'[c].target = None
                 /\ UNCHANGED <<modalStates, tabOpen, tabGen, captures>>]_vars

\* C6 witness: the same invalid call answered both ways, once with no Tab
\* and no modal state and once under an active modal state.
C6_Witness ==
    \E c \in CallIds : \E d \in CallIds :
        /\ calls[c].tool = "browser_hover" /\ ~calls[c].valid
        /\ calls[c].resp.kind = "invalid"
        /\ calls[d].tool = "browser_hover" /\ ~calls[d].valid
        /\ calls[d].resp.kind = "modal"

\* C7: a reference of the Tab's current generation is resolved directly: no
\* capture, no substitution, and the target is the node of that reference.
C7_CurrentRefDirect ==
    [][\A c \in CallIds :
          (/\ calls[c].pc \in {"stale", "plan"}
           /\ calls'[c] # calls[c]
           /\ tabGen > 0 /\ RefOfGen(calls[c].orig, tabGen))
              => /\ captures' = captures
                 /\ calls'[c].ref = calls[c].orig
                 /\ calls'[c].pc = "act" =>
                        calls'[c].target = ResolveIn(tabGen, captures[tabGen], calls[c].orig)]_vars

\* C8: when the resolver meets a reference of another generation than the
\* Tab's current one, the Tab's snapshot is recaptured (its generation goes
\* up by one and it is the page's latest capture) and the repaired reference
\* is resolved against that capture.
C8_StaleRefRecapturesTab ==
    [][\A c \in CallIds :
          (/\ ~calls[c].via /\ calls'[c].via
           /\ tabGen > 0 /\ RefOfOtherGen(calls[c].orig, tabGen))
              => /\ tabGen' = tabGen + 1
                 /\ tabGen' = Len(captures')]_vars

\* C9: an action is only ever bound to the element its reference was minted
\* for; any other reference ends in an error.
C9_NeverWrongElement ==
    \A c \in CallIds :
        calls[c].target # None => calls[c].target = MintedFor(calls[c].orig)

\* C10: a reference is resolved to a target only after the stale-reference
\* resolver has been applied to it.
C10_ResolverBeforeTarget ==
    \A c \in CallIds : calls[c].target # None => calls[c].via

\* the tools whose handler asks the Tab for its current snapshot
NeedsSnapshot(tool) ==
    tool.kind \notin {"snapshot", "modal"} /\ tool.name \in RegisteredNames

\* call c performs a driver operation in this step
Performs(c) == calls'[c].pc # "idle" /\ calls'[c].log # calls[c].log

\* C11: a call that ends in an error has captured no snapshot: the only
\* capture is the recapture after a successfully executed action, never one
\* during the planning of a call that then fails.
C11_FailedCallCapturedNothing ==
    \A c \in CallIds :
        (calls[c].pc = "done" /\ calls[c].resp.isError) => ~calls[c].via

\* C12: a call of a snapshot-needing tool that finds no Tab, or a Tab without
\* a current snapshot, is answered with an error without having captured a
\* snapshot and without having run any part of its action.
C12_NoSnapshotFailsFast ==
    \A c \in CallIds :
        (calls[c].pc = "done" /\ calls[c].resp.kind = "precondition")
            => /\ calls[c].resp.isError
               /\ calls[c].log = <<>>
               /\ ~calls[c].via

\* C13: the action of a tool declaring clearsModalState = T, when it
\* succeeds, leaves the active modal set equal to the previous set minus T,
\* and when it fails leaves the set unchanged.
C13_ClearsExactlyDeclared ==
    [][\A c \in CallIds :
          (/\ calls[c].pc = "act" /\ calls'[c] # calls[c]
           /\ ToolOf(calls[c]).clears # None)
              => IF calls'[c].resp.isError
                 THEN modalStates' = modalStates
                 ELSE /\ calls'[c].pc = "done" /\ calls'[c].resp.kind = "ok"
                      /\ modalStates' = modalStates \ {ToolOf(calls[c]).clears}]_vars

\* C13 witness: the dialog tool has succeeded and the file chooser, active
\* beside the dialog, is still active.
C13_Witness ==
    \E c \in CallIds :
        /\ calls[c].tool = "browser_handle_dialog"
        /\ calls[c].pc = "done" /\ calls[c].resp.kind = "ok"
        /\ calls[c].log = <<"handle">>
        /\ modalStates = {"fileChooser"}

\* C14: a driver operation is performed only in a step of context.run's
\* execution of the returned action, one operation at a time, and by then
\* the handler has returned its complete trace; no handler performs one.
C14_ActionIsDeferred ==
    [][\A c \in CallIds :
          Performs(c)
              => /\ calls[c].pc = "act"
                 /\ calls[c].handled /\ calls[c].code
                 /\ calls'[c].log = Append(calls[c].log, Head(calls[c].steps))]_vars

\* C14 witness: a click has been performed by the dispatcher, after its
\* trace was returned, on the element the handler bound.
C14_Witness ==
    \E c \in CallIds :
        /\ calls[c].tool = "browser_click"
        /\ calls[c].code /\ calls[c].log = <<"click">> /\ calls[c].target # None
        /\ calls[c].pc = "net"

\* the text-entry operation browser_type is asked for
TextEntry(call) == IF call.slowly THEN "pressSequentially" ELSE "fill"

\* s is an initial segment of t
IsPrefix(s, t) == Len(s) =< Len(t) /\ \A k \in 1..Len(s) : s[k] = t[k]

\* C17: what browser_type has performed is always an initial segment of
\* <<text entry, Enter>> (without Enter when submit is false), all of it
\* once the call has succeeded; a call whose action failed has not pressed
\* Enter after a failed text entry.
C17_TypeStepsInOrder ==
    \A c \in CallIds :
        calls[c].tool = "browser_type" =>
            LET want == <<TextEntry(calls[c])>>
                            \o (IF calls[c].submit THEN <<"press">> ELSE <<>>)
            IN  /\ IsPrefix(calls[c].log, want)
                /\ (calls[c].pc \in {"net", "snap"}) => calls[c].log = want
                /\ (calls[c].pc = "done" /\ calls[c].resp.kind = "ok")
                       => calls[c].log = want
                /\ (calls[c].pc = "done" /\ calls[c].resp.kind = "action")
                       => /\ calls[c].resp.isError
                          /\ calls[c].log # want
                          /\ calls[c].log \in {<<>>, <<TextEntry(calls[c])>>}

\* C17 witness: a slow, submitting browser_type has succeeded with the
\* sequential entry followed by Enter.
C17_Witness ==
    \E c \in CallIds :
        /\ calls[c].tool = "browser_type" /\ calls[c].slowly /\ calls[c].submit
        /\ calls[c].pc = "done" /\ calls[c].resp.kind = "ok"
        /\ calls[c].log = <<"pressSequentially", "press">>

\* C18: browser_take_screenshot gets past validation only with element and
\* ref both given or both absent; with exactly one it is answered "invalid"
\* whatever the Tab and snapshot are and without touching them; with a ref
\* the screenshot is of the resolved element, without one of the viewport;
\* after the action the snapshot is recaptured with no wait for the network.
C18_ScreenshotContract ==
    \A c \in CallIds :
        (calls[c].tool = "browser_take_screenshot" /\ calls[c].handled) =>
            LET call == calls[c]
                both == call.element /\ call.orig # NoRef
                neither == ~call.element /\ call.orig = NoRef
                refused == call.pc = "done" /\ call.resp.kind = "invalid"
            IN  /\ ~refused => (both \/ neither)
                /\ ~(both \/ neither) => refused
                /\ refused => (call.log = <<>> /\ call.target = None /\ ~call.via)
                /\ call.log # <<>> =>
                       /\ call.log = <<"screenshot">>
                       /\ both => call.target \in Elems
                       /\ neither => call.target = None
                       /\ call.pc \in {"snap", "done"}
                /\ call.pc # "net"
                /\ (call.pc = "done" /\ call.resp.kind = "ok")
                       => (call.log = <<"screenshot">> /\ tabGen = PageGen)

\* C18 witness: an element screenshot and a viewport screenshot, each taken
\* and waiting for the recapture.
C18_Witness ==
    \E c \in CallIds :
        /\ calls[c].tool = "browser_take_screenshot"
        /\ calls[c].pc = "snap" /\ calls[c].log = <<"screenshot">>
        /\ calls[c].element /\ calls[c].target \in Elems

\* C19: the action of a tool that clears no modal state performs nothing
\* while a modal state is active.
C19_NoActionUnderModal ==
    [][\A c \in CallIds :
          (Performs(c) /\ ToolOf(calls[c]).clears = None) => modalStates = {}]_vars

\* s<g>e, written out
Stem(g) == <<"s">> \o NumStr(g) \o <<"e">>

\* str begins with s, one or more digits, e
BeginsWithStem(str) ==
    \E n \in 1..(Len(str) - 2) :
        /\ str[1] = "s" /\ str[n + 2] = "e"
        /\ \A k \in 2..(n + 1) : IsDigit(str[k])

\* C16: handleStaleRef returns the reference it was given, or a reference
\* of the fresh text whose generation is the given one's plus one; it
\* returns the given reference when the fresh text has no reference of that
\* next generation, and when the given reference does not begin with
\* s<digits>e.
C16_StaleRefResult ==
    probe.pc = "returned" =>
        LET ref == probe.ref
            text == probe.text
            out == probe.out
            quoted == {text[k] : k \in 1..Len(text)}
        IN  /\ out # ref =>
                   /\ out \in quoted
                   /\ \E g \in 0..20 : StartsWith(ref, Stem(g)) /\ StartsWith(out, Stem(g + 1))
                   /\ RefGeneration(out) = RefGeneration(ref) + 1
            /\ (\A g \in 0..20 : StartsWith(ref, Stem(g)) =>
                    ~\E q \in quoted : StartsWith(q, Stem(g + 1))) => out = ref
            /\ ~BeginsWithStem(ref) => out = ref

\* C16 witness: a reference of generation 1 was repaired to the first
\* reference of generation 2 the fresh text quotes, which is not the text's
\* first reference.
C16_Witness ==
    /\ probe.pc = "returned"
    /\ probe.ref = MkRef(1, 1)
    /\ probe.text = <<MkRef(1, 1), MkRef(3, 2), MkRef(2, 2), MkRef(2, 1)>>
    /\ probe.out = MkRef(2, 2)

\* C20: no server of the list has its close() invoked more than once.
C20_ClosedAtMostOnce ==
    \A s \in 1..MaxServers : closes[s] =< 1

\* C21: once close() has been called on a server, its Context is eventually
\* closed, whether the underlying server's close succeeds or fails.
C21_ContextEventuallyClosed ==
    \A s \in 1..MaxServers :
        (closing[s].pc # "open") ~> closing[s].ctxClosed

====
